---- MODULE Spec2Model ----
(***************************************************************************)
(* The Change contract of src/rust-changeback/src/lib.rs: one i32 field,   *)
(* val, with the methods get_num, add, change and reset, and the host log  *)
(* that env::log appends to.                                               *)
(*                                                                         *)
(* An i32 is kept as two 16-bit limbs, [hi, lo] standing for               *)
(* hi * 2^16 + lo with lo in 0 .. 2^16 - 1, so that the mathematical       *)
(* result of an addition that leaves the 32-bit range can be written down  *)
(* and compared with what the machine stores.                              *)
(***************************************************************************)
EXTENDS Integers, Sequences, FiniteSets, TLC

VARIABLES
    val,              \* Change.val, the stored i32 (as limbs)
    log,              \* the entries env::log has emitted, oldest first
    overflow_checks,  \* the build: TRUE when `+=` / `-=` panic on overflow
    ctor,             \* history: how the instance was constructed
    calls             \* history: the invocations made so far, oldest first

vars == <<val, log, overflow_checks, ctor, calls>>

\* ------------------------------------------------------------------ bounds

MaxCalls == 4

\* ------------------------------------------------------- 32-bit arithmetic

I32_MAX == 2147483647
I32_MIN == -I32_MAX - 1

Limb == 2^16
HiMax == 2^15 - 1
HiMin == -(2^15)

\* The limbs of an integer that fits 32 bits.
FromInt(n) == [hi |-> n \div Limb, lo |-> n % Limb]

\* The integer a pair of limbs stands for (defined when it fits 32 bits).
ToInt(w) == w.hi * Limb + w.lo

\* Whether a pair of limbs is a value of type i32.
InI32(w) == /\ w.hi \in HiMin..HiMax
            /\ w.lo \in 0..(Limb - 1)

\* The mathematical sum w + k, for a small k of either sign, not reduced.
WideAdd(w, k) ==
    LET s == w.lo + k
    IN  [hi |-> w.hi + (s \div Limb), lo |-> s % Limb]

\* Reduction modulo 2^32 into the i32 range (two's complement wrap).
Wrap32Unreduced(w) == w

Wrap32(w) == [hi |-> ((w.hi - HiMin) % Limb) + HiMin, lo |-> w.lo]

\* ------------------------------------------------ format!("{}", i32)

DigitChars == <<"0", "1", "2", "3", "4", "5", "6", "7", "8", "9">>

\* The magnitude of a negative number.
Magnitude(w) ==
    [hi |-> (-w.hi) - (IF w.lo = 0 THEN 0 ELSE 1), lo |-> (Limb - w.lo) % Limb]

\* Quotient and remainder of a non-negative number by ten (long division).
DivMod10(w) ==
    LET t == (w.hi % 10) * Limb + w.lo
    IN  [q |-> [hi |-> w.hi \div 10, lo |-> t \div 10], r |-> t % 10]

RECURSIVE UDigits(_)
UDigits(w) ==
    IF w.hi = 0 /\ w.lo < 10
    THEN DigitChars[w.lo + 1]
    ELSE LET d == DivMod10(w) IN UDigits(d.q) \o DigitChars[d.r + 1]

\* Display of a signed integer: a minus sign when negative, then the
\* decimal digits without leading zeros.
Itoa(w) == IF w.hi < 0 THEN "-" \o UDigits(Magnitude(w)) ELSE UDigits(w)

\* ---------------------------------------------------------- the contract

AddAmount == 1000
SubAmount == 10

\* #[derive(Default)]: an i32 field defaults to zero.
Default == [val |-> FromInt(0)]

\* The struct literal Change { val: v }.
NewIgnoringValue(v) == Default

New(v) == [val |-> FromInt(v)]

\* What one invocation does: the value it leaves in self.val, the entries it
\* hands to env::log in order, what it returns (<<>> for the unit value),
\* and whether it panicked instead of returning.
Returned(v, logs, ret) == [val |-> v, logs |-> logs, ret |-> ret, panicked |-> FALSE]

\* A panic before the first statement with an effect has completed: nothing
\* is stored, nothing is logged, nothing is returned.
Panicked(v) == [val |-> v, logs |-> <<>>, ret |-> <<>>, panicked |-> TRUE]

\* fn after_counter_change(): one fixed warning.
after_counter_change == <<"Make sure you don't overflow, my friend.">>

\* `self.val += k` / `self.val -= k` on an i32: with overflow checks the
\* statement panics when the result does not fit, without them it wraps.
Overflows(v, k) == ~InI32(WideAdd(v, k))

\* pub fn get_num(&self) -> i32
get_num_logging(v) == Returned(v, <<"get_num " \o Itoa(v)>>, <<v>>)

get_num(v) == Returned(v, <<>>, <<v>>)

\* pub fn add(&mut self)
add_by_one(v, checks) ==
    IF Overflows(v, 1) /\ checks
    THEN Panicked(v)
    ELSE LET n == Wrap32(WideAdd(v, 1))
         IN  Returned(n, <<"Added money to " \o Itoa(n)>> \o after_counter_change, <<>>)

add_logging_old_value(v, checks) ==
    IF Overflows(v, AddAmount) /\ checks
    THEN Panicked(v)
    ELSE LET n == Wrap32(WideAdd(v, AddAmount))
         IN  Returned(n, <<"Added money to " \o Itoa(v)>> \o after_counter_change, <<>>)

add_saturating(v, checks) ==
    LET n == IF Overflows(v, AddAmount) THEN FromInt(I32_MAX) ELSE WideAdd(v, AddAmount)
    IN  Returned(n, <<"Added money to " \o Itoa(n)>> \o after_counter_change, <<>>)

add(v, checks) ==
    IF Overflows(v, AddAmount) /\ checks
    THEN Panicked(v)
    ELSE LET n == Wrap32(WideAdd(v, AddAmount))
         IN  Returned(n, <<"Added money to " \o Itoa(n)>> \o after_counter_change, <<>>)

\* pub fn change(&mut self)
change_adding(v, checks) ==
    IF Overflows(v, SubAmount) /\ checks
    THEN Panicked(v)
    ELSE LET n == Wrap32(WideAdd(v, SubAmount))
         IN  Returned(n, <<"Value after change " \o Itoa(n)>> \o after_counter_change, <<>>)

change_by_one(v, checks) ==
    IF Overflows(v, -1) /\ checks
    THEN Panicked(v)
    ELSE LET n == Wrap32(WideAdd(v, -1))
         IN  Returned(n, <<"Value after change " \o Itoa(n)>> \o after_counter_change, <<>>)

change(v, checks) ==
    IF Overflows(v, -SubAmount) /\ checks
    THEN Panicked(v)
    ELSE LET n == Wrap32(WideAdd(v, -SubAmount))
         IN  Returned(n, <<"Value after change " \o Itoa(n)>> \o after_counter_change, <<>>)

\* pub fn reset(&mut self)
reset_log_only(v) == Returned(v, <<"Reset Change to zero">>, <<>>)

reset(v) == Returned(FromInt(0), <<"Reset Change to zero">>, <<>>)

\* ----------------------------------------------------- the state machine

\* Values an instance is constructed with: zero, values that are no
\* multiple of ten, values whose low limb carries or borrows, and the
\* values at and next to both ends of the i32 range.
InitVals ==
    { 0, 5, -7, -1, 65000, 65541,
      I32_MAX, I32_MAX - AddAmount, I32_MAX - AddAmount + 1,
      I32_MIN, I32_MIN + SubAmount, I32_MIN + SubAmount - 1 }

Init ==
    /\ overflow_checks \in BOOLEAN
    /\ \/ /\ ctor = [kind |-> "default", v |-> 0]
          /\ val = Default.val
       \/ \E v \in InitVals :
             /\ ctor = [kind |-> "literal", v |-> v]
             /\ val = New(v).val
    /\ log = <<>>
    /\ calls = <<>>

\* The record of one invocation: the method, the value it found, what it
\* returned, and whether it returned at all.
Call(op, pre, r) ==
    [op |-> op, pre |-> pre, ret |-> r.ret,
     outcome |-> IF r.panicked THEN "panicked" ELSE "returned"]

\* Each invocation runs to completion before the next one starts.
GetNum ==
    LET r == get_num(val)
    IN  /\ Len(calls) < MaxCalls
        /\ val' = r.val
        /\ log' = log \o r.logs
        /\ calls' = Append(calls, Call("get_num", val, r))
        /\ UNCHANGED <<overflow_checks, ctor>>

Add ==
    LET r == add(val, overflow_checks)
    IN  /\ Len(calls) < MaxCalls
        /\ val' = r.val
        /\ log' = log \o r.logs
        /\ calls' = Append(calls, Call("add", val, r))
        /\ UNCHANGED <<overflow_checks, ctor>>

Change ==
    LET r == change(val, overflow_checks)
    IN  /\ Len(calls) < MaxCalls
        /\ val' = r.val
        /\ log' = log \o r.logs
        /\ calls' = Append(calls, Call("change", val, r))
        /\ UNCHANGED <<overflow_checks, ctor>>

Reset ==
    LET r == reset(val)
    IN  /\ Len(calls) < MaxCalls
        /\ val' = r.val
        /\ log' = log \o r.logs
        /\ calls' = Append(calls, Call("reset", val, r))
        /\ UNCHANGED <<overflow_checks, ctor>>

Next == GetNum \/ Add \/ Change \/ Reset

Spec == Init /\ [][Next]_vars

\* ------------------------------------------------------------ properties

\* The stored value after the i-th invocation: what the next invocation
\* found, or the current value when it is the latest.
ValAfter(i) == IF i = Len(calls) THEN val ELSE calls[i + 1].pre

\* The i-th invocation is a get_num that returned n.
GetReturned(i, n) ==
    /\ calls[i].outcome = "returned"
    /\ Len(calls[i].ret) = 1
    /\ ToInt(calls[i].ret[1]) = n

\* The ops of the invocations made so far.
Ops == [i \in 1..Len(calls) |-> calls[i].op]

C4_GetNumIsPure ==
    [][ (Len(calls') = Len(calls) + 1 /\ calls'[Len(calls')].op = "get_num") =>
            /\ calls'[Len(calls')].outcome = "returned"
            /\ calls'[Len(calls')].ret = <<val>>
            /\ val' = val
            /\ log' = log ]_vars

\* A get_num() made with a non-zero value stored and a non-empty log.
C4_Witness ==
    /\ Len(calls) = 3
    /\ Ops = <<"change", "add", "get_num">>
    /\ GetReturned(3, 65990)
    /\ ToInt(val) = 65990
    /\ Len(log) = 4

\* C5: a default instance holds 0; an instance constructed with v holds v;
\* get_num() as the first invocation returns the value it was constructed
\* with.
C5_ConstructedValue ==
    /\ calls = <<>> => ToInt(val) = ctor.v
    /\ (calls = <<>> /\ ctor.kind = "default") => ToInt(val) = 0
    /\ (Len(calls) >= 1 /\ calls[1].op = "get_num") => GetReturned(1, ctor.v)

\* get_num() right after constructing an instance with -7.
C5_Witness ==
    /\ ctor = [kind |-> "literal", v |-> -7]
    /\ Ops = <<"get_num">>
    /\ GetReturned(1, -7)

\* C6: the stored value is a signed 32-bit integer in every reachable
\* state, also after an addition or subtraction that crossed an end of the
\* range.
C6_ValIsI32 == InI32(val)

\* An add() that crossed the upper end followed by a change() that crossed
\* the lower end, in the build that wraps.
C6_Witness ==
    /\ ~overflow_checks
    /\ ctor.v = I32_MAX
    /\ Ops = <<"add", "reset", "change", "get_num">>
    /\ ToInt(calls[2].pre) = I32_MIN + 999
    /\ \E i \in 1..Len(calls) :
          calls[i].op = "add" /\ ToInt(calls[i].pre) > 0 /\ ToInt(ValAfter(i)) < 0

\* The step just taken is an invocation of op.
Invoked(op) == Len(calls') = Len(calls) + 1 /\ calls'[Len(calls')].op = op

\* The step just taken is an invocation of op that returned.
Succeeded(op) == Invoked(op) /\ calls'[Len(calls')].outcome = "returned"

\* C7: an add() that returns appends exactly "Added money to <n>", n the
\* value after the addition, and then the overflow warning; a change() that
\* returns appends exactly "Value after change <n>", n the value after the
\* subtraction, and then the same warning; reset() appends exactly
\* "Reset Change to zero". The entries are spelled out for add() and
\* change() on 0, on the value wrapping to the other end of the range, and
\* for the values at the ends of the range.
C7_LogPattern ==
    [][ /\ Succeeded("add") =>
              /\ log' = log \o << "Added money to " \o Itoa(val'),
                                  "Make sure you don't overflow, my friend." >>
              /\ ToInt(val) = 0 => log'[Len(log') - 1] = "Added money to 1000"
              /\ ToInt(val) = I32_MAX - 1000 =>
                     log'[Len(log') - 1] = "Added money to 2147483647"
              /\ ToInt(val) = I32_MAX =>
                     log'[Len(log') - 1] = "Added money to -2147482649"
              /\ ToInt(val) = I32_MIN =>
                     log'[Len(log') - 1] = "Added money to -2147482648"
        /\ Succeeded("change") =>
              /\ log' = log \o << "Value after change " \o Itoa(val'),
                                  "Make sure you don't overflow, my friend." >>
              /\ ToInt(val) = 0 => log'[Len(log') - 1] = "Value after change -10"
              /\ ToInt(val) = I32_MIN + 10 =>
                     log'[Len(log') - 1] = "Value after change -2147483648"
              /\ ToInt(val) = I32_MIN =>
                     log'[Len(log') - 1] = "Value after change 2147483638"
              /\ ToInt(val) = 1000 => log'[Len(log') - 1] = "Value after change 990"
        /\ Succeeded("reset") => log' = log \o << "Reset Change to zero" >> ]_vars

\* add(), change() and reset() in a row on a fresh instance, and the five
\* entries they leave.
C7_Witness ==
    /\ ctor.kind = "default"
    /\ Ops = <<"add", "change", "reset">>
    /\ log = << "Added money to 1000",
                "Make sure you don't overflow, my friend.",
                "Value after change 990",
                "Make sure you don't overflow, my friend.",
                "Reset Change to zero" >>

\* C8: add() then change() on a stored value v, neither step overflowing,
\* leaves v + 990; change() then add() on v, neither step overflowing,
\* leaves v + 990 as well.
C8_AddChangeCompose ==
    \A i \in 1..(Len(calls) - 1) :
        LET v == ToInt(calls[i].pre)
        IN  /\ ( /\ calls[i].op = "add" /\ calls[i + 1].op = "change"
                 /\ v <= I32_MAX - 1000 ) =>
                   /\ calls[i].outcome = "returned"
                   /\ calls[i + 1].outcome = "returned"
                   /\ ToInt(ValAfter(i + 1)) = v + 990
            /\ ( /\ calls[i].op = "change" /\ calls[i + 1].op = "add"
                 /\ v >= I32_MIN + 10 /\ v <= I32_MAX - 990 ) =>
                   /\ calls[i].outcome = "returned"
                   /\ calls[i + 1].outcome = "returned"
                   /\ ToInt(ValAfter(i + 1)) = v + 990

\* Both orders in one run from 0: add(); change() leaves 990, and then
\* change(); add() on 990 leaves 1980.
C8_Witness ==
    /\ ctor.v = 0
    /\ Ops = <<"add", "change", "change", "add">>
    /\ ToInt(calls[3].pre) = 990
    /\ ToInt(val) = 1980

\* C9: every invocation either returns or panics, and returns the unit
\* value or, for get_num(), an i32; an add() on a value above
\* 2147483647 - 1000, and a change() on a value below -2147483648 + 10,
\* either panics with the stored value and the log as they were, or returns
\* with the value reduced modulo 2^32 and its two log entries appended.
C9_OverflowOutcomes ==
    [][ Len(calls') = Len(calls) + 1 =>
          LET c == calls'[Len(calls')]
              v == ToInt(val)
          IN  /\ c.outcome \in {"returned", "panicked"}
              /\ c.ret = <<>> \/ (c.op = "get_num" /\ c.ret = <<val>>)
              /\ c.outcome = "panicked" => (c.ret = <<>> /\ val' = val /\ log' = log)
              /\ (c.op = "add" /\ v > I32_MAX - 1000) =>
                    \/ c.outcome = "panicked" /\ val' = val /\ log' = log
                    \/ /\ c.outcome = "returned"
                       /\ ToInt(val') = ((v - I32_MAX) + 999) + I32_MIN
                       /\ log' = log \o << "Added money to " \o Itoa(val'),
                                           "Make sure you don't overflow, my friend." >>
              /\ (c.op = "change" /\ v < I32_MIN + 10) =>
                    \/ c.outcome = "panicked" /\ val' = val /\ log' = log
                    \/ /\ c.outcome = "returned"
                       /\ ToInt(val') = ((v - I32_MIN) - 9) + I32_MAX
                       /\ log' = log \o << "Value after change " \o Itoa(val'),
                                           "Make sure you don't overflow, my friend." >> ]_vars

\* In the build that panics: change() on 2147483647 returns, then add() on
\* 2147483637 panics, leaving the value and the two earlier entries.
C9_Witness ==
    /\ overflow_checks
    /\ ctor.v = I32_MAX
    /\ Ops = <<"change", "add">>
    /\ calls[2].outcome = "panicked"
    /\ ToInt(val) = I32_MAX - 10
    /\ Len(log) = 2

\* No invocation made so far met a value on which it overflows.
NoOverflowSoFar ==
    \A i \in 1..Len(calls) :
        /\ calls[i].op = "add" => ToInt(calls[i].pre) <= I32_MAX - 1000
        /\ calls[i].op = "change" => ToInt(calls[i].pre) >= I32_MIN + 10

\* The stored values after 1, 2, ..., n consecutive change() calls on v.
RECURSIVE ChangeOrbit(_, _)
ChangeOrbit(v, n) ==
    IF n = 0 THEN <<>>
    ELSE IF n = 1 THEN <<change(v, overflow_checks).val>>
    ELSE LET h == n \div 2
             first == ChangeOrbit(v, h)
         IN  first \o ChangeOrbit(first[h], n - h)

\* C10: on an instance created with the default value 0, as long as no call
\* has overflowed, the stored value is a multiple of 10 (so it is neither 1
\* nor 995); and from such a value one add() is undone by exactly 100
\* consecutive change() calls, no fewer.
C10_MultipleOfTen ==
    (ctor.kind = "default" /\ NoOverflowSoFar) =>
        /\ ToInt(val) % 10 = 0
        /\ ToInt(val) \notin {1, 995}
        /\ LET added == add(val, overflow_checks).val
               orbit == ChangeOrbit(added, 100)
           IN  /\ added # val
               /\ orbit[100] = val
               /\ \A n \in 1..99 : orbit[n] # val

\* A fresh instance after add(), change(), change(): 980 stored.
C10_Witness ==
    /\ ctor.kind = "default"
    /\ Ops = <<"add", "change", "change", "get_num">>
    /\ NoOverflowSoFar
    /\ GetReturned(4, 980)

====
